---- MODULE Spec2Model ----
(***************************************************************************)
(* bobafm (src/main.go): the mode state machine of model.Update, the       *)
(* marked map, the clipboard, the text-entry commit and the mount view,    *)
(* over a small filesystem.                                                *)
(*                                                                         *)
(* Strings are sequences of one-character strings, so that TrimSpace,      *)
(* HasSuffix, filepath.Join and e.Name()[0] are computed as the code       *)
(* computes them.  A path is the sequence of its components: <<>> is "/".  *)
(***************************************************************************)
EXTENDS Integers, Sequences, FiniteSets, TLC

VARIABLES
  status,       \* "running" | "quit" (tea.Quit) | "crashed" (panic in Update)
  mode,         \* model.mode
  cwd,          \* model.cwd
  showHidden,   \* model.showHidden
  browse,       \* items of model.browse, in display order
  cursor,       \* index (from 0) of the selected item of model.browse
  mounts,       \* items of model.mounts
  mcursor,      \* index (from 0) of the selected item of model.mounts
  inputTarget,  \* model.inputTarget
  marked,       \* model.marked: a map, DOMAIN = its keys
  clipboard,    \* model.clipboard
  clipMode,     \* model.clipMode
  fs,           \* the filesystem: existing path -> node
  mtab,         \* the block devices: device -> <<>> or <<mount point>>
  app,          \* the package variable app: the map app.marked refers to
  steps,        \* number of key events handled, cursor movement apart
  ev            \* the event handled last, with what it acted on

vars == <<status, mode, cwd, showHidden, browse, cursor, mounts, mcursor,
          inputTarget, marked, clipboard, clipMode, fs, mtab, app, steps, ev>>

\* Bound of the model: the number of key events of a run.
MaxSteps == 5

(***************************************************************************)
(* Strings and paths                                                       *)
(***************************************************************************)
\* The characters used, in byte order (os.ReadDir sorts by filename).
Alphabet == <<" ", ".", "/", "a", "d", "h", "n">>

Rank(c) == CHOOSE i \in 1..Len(Alphabet) : Alphabet[i] = c

RECURSIVE LessName(_, _)
LessName(s, t) ==
  IF s = <<>> THEN t # <<>>
  ELSE IF t = <<>> THEN FALSE
  ELSE IF Head(s) = Head(t) THEN LessName(Tail(s), Tail(t))
  ELSE Rank(Head(s)) < Rank(Head(t))

RECURSIVE SortNames(_)
SortNames(S) ==
  IF S = {} THEN <<>>
  ELSE LET m == CHOOSE x \in S : \A y \in S \ {x} : LessName(x, y)
       IN <<m>> \o SortNames(S \ {m})

RECURSIVE TrimLeft(_)
TrimLeft(s) == IF s # <<>> /\ Head(s) = " " THEN TrimLeft(Tail(s)) ELSE s

RECURSIVE TrimRight(_)
TrimRight(s) ==
  IF s # <<>> /\ s[Len(s)] = " " THEN TrimRight(SubSeq(s, 1, Len(s) - 1)) ELSE s

\* strings.TrimSpace
TrimSpace(s) == TrimRight(TrimLeft(s))

\* strings.HasSuffix(s, "/")
HasSlashSuffix(s) == s # <<>> /\ s[Len(s)] = "/"

\* The components of s between separators (empty ones included).
RECURSIVE SplitSlash(_)
SplitSlash(s) ==
  IF s = <<>> THEN << <<>> >>
  ELSE LET r == SplitSlash(Tail(s))
       IN IF Head(s) = "/" THEN << <<>> >> \o r
          ELSE << <<Head(s)>> \o Head(r) >> \o Tail(r)

\* filepath.Clean of dir followed by comps, dir being clean and absolute.
RECURSIVE CleanFrom(_, _)
CleanFrom(dir, comps) ==
  IF comps = <<>> THEN dir
  ELSE LET c == Head(comps)
       IN IF c = <<>> \/ c = <<".">> THEN CleanFrom(dir, Tail(comps))
          ELSE IF c = <<".", ".">>
                 THEN CleanFrom(IF dir = <<>> THEN dir
                                ELSE SubSeq(dir, 1, Len(dir) - 1), Tail(comps))
          ELSE CleanFrom(Append(dir, c), Tail(comps))

\* filepath.Join(dir, s)
Join(dir, s) == CleanFrom(dir, SplitSlash(s))

\* filepath.Dir(p)
Dir(p) == IF p = <<>> THEN p ELSE SubSeq(p, 1, Len(p) - 1)

\* filepath.Base(p)
Base(p) == IF p = <<>> THEN <<"/">> ELSE p[Len(p)]

IsPrefix(p, q) == Len(p) <= Len(q) /\ SubSeq(q, 1, Len(p)) = p

(***************************************************************************)
(* The filesystem                                                          *)
(***************************************************************************)
DirNode(r) == [isDir |-> TRUE, readable |-> r, bytes |-> <<>>]
FileNode(b) == [isDir |-> FALSE, readable |-> TRUE, bytes |-> b]

Exists(f, p) == p \in DOMAIN f
IsDirAt(f, p) == p \in DOMAIN f /\ f[p].isDir
IsFileAt(f, p) == p \in DOMAIN f /\ ~f[p].isDir
ParentIsDir(f, p) == p # <<>> /\ IsDirAt(f, Dir(p))

Children(f, p) == {q \in DOMAIN f : q # <<>> /\ Dir(q) = p}
Subtree(f, p) == {q \in DOMAIN f : IsPrefix(p, q)}

Put(f, p, n) == [q \in DOMAIN f \cup {p} |-> IF q = p THEN n ELSE f[q]]
Drop(f, S) == [q \in DOMAIN f \ S |-> f[q]]

\* os.ReadDir(p) succeeds
ReadDirOK(f, p) == IsDirAt(f, p) /\ f[p].readable

\* os.Rename(src, dst)
OsRename(f, src, dst) ==
  IF ~Exists(f, src) THEN f
  ELSE IF IsDirAt(f, dst) THEN f
  ELSE IF src = dst THEN f
  ELSE IF ~ParentIsDir(f, dst) THEN f
  ELSE IF f[src].isDir /\ Exists(f, dst) THEN f
  ELSE IF IsPrefix(src, dst) THEN f
  ELSE LET moved == Subtree(f, src)
           to(q) == dst \o SubSeq(q, Len(src) + 1, Len(q))
           from(q) == src \o SubSeq(q, Len(dst) + 1, Len(q))
       IN [q \in (DOMAIN f \ moved) \cup {to(x) : x \in moved} |->
             IF IsPrefix(dst, q) THEN f[from(q)] ELSE f[q]]

\* os.Remove(p) in the place of os.RemoveAll(p): a directory goes only if empty
OsRemoveOnly(f, p) ==
  IF ~Exists(f, p) \/ p = <<>> \/ Children(f, p) # {} THEN f ELSE Drop(f, {p})

\* os.RemoveAll(p): what cannot be listed cannot be emptied
OsRemoveAll(f, p) ==
  IF ~Exists(f, p) \/ p = <<>> THEN f
  ELSE LET sub == Subtree(f, p)
           stuck == {q \in sub : f[q].isDir /\ ~f[q].readable
                                 /\ Children(f, q) # {}}
           kept == {q \in sub : \E s \in stuck : IsPrefix(q, s) \/ IsPrefix(s, q)}
       IN Drop(f, sub \ kept)

\* os.MkdirAll(p, 0755)
OsMkdirAll(f, p) ==
  LET pre == {SubSeq(p, 1, k) : k \in 0..Len(p)}
  IN IF \E q \in pre : IsFileAt(f, q) THEN f
     ELSE [q \in DOMAIN f \cup pre |-> IF q \in DOMAIN f THEN f[q] ELSE DirNode(TRUE)]

\* os.Create(p) in the place of the exclusive open: an existing file is emptied
OsCreateTruncating(f, p) ==
  IF ParentIsDir(f, p) /\ ~IsDirAt(f, p) THEN Put(f, p, FileNode(<<>>)) ELSE f

\* os.OpenFile(p, os.O_CREATE|os.O_EXCL, 0644)
OsCreateExcl(f, p) ==
  IF ~Exists(f, p) /\ ParentIsDir(f, p) THEN Put(f, p, FileNode(<<>>)) ELSE f

\* copyFile(src, dst): os.Open, then os.Create (which truncates), then io.Copy
copyFile(f, src, dst) ==
  LET inOK == Exists(f, src)
      outOK == ParentIsDir(f, dst) /\ ~IsDirAt(f, dst)
      f1 == IF outOK THEN Put(f, dst, FileNode(<<>>)) ELSE f
      data == IF inOK /\ IsFileAt(f1, src) THEN f1[src].bytes ELSE <<>>
  IN IF outOK THEN Put(f1, dst, FileNode(data)) ELSE f1

(***************************************************************************)
(* The catalog (refreshBrowse) and the device list (refreshMounts)         *)
(***************************************************************************)
FileItem(n, p, d, par) == [name |-> n, path |-> p, isDir |-> d, isParent |-> par]

\* The items in the order of os.ReadDir, directories and files mixed
ListingUnpartitioned(f, dir, sh) ==
  LET names == SortNames({Base(q) : q \in Children(f, dir)})
      shown == SelectSeq(names, LAMBDA n : sh \/ n[1] # ".")
      item(n) == FileItem(n, Join(dir, n), f[Append(dir, n)].isDir, FALSE)
      up == IF Dir(dir) # dir
              THEN <<FileItem(<<".", ".">>, Dir(dir), TRUE, TRUE)>> ELSE <<>>
  IN up \o [i \in 1..Len(shown) |-> item(shown[i])]

\* The items refreshBrowse builds from a successful os.ReadDir(dir).
Listing(f, dir, sh) ==
  LET names == SortNames({Base(q) : q \in Children(f, dir)})
      shown == SelectSeq(names, LAMBDA n : sh \/ n[1] # ".")
      isD(n) == f[Append(dir, n)].isDir
      ds == SelectSeq(shown, LAMBDA n : isD(n))
      fl == SelectSeq(shown, LAMBDA n : ~isD(n))
      item(n) == FileItem(n, Join(dir, n), isD(n), FALSE)
      up == IF Dir(dir) # dir
              THEN <<FileItem(<<".", ".">>, Dir(dir), TRUE, TRUE)>> ELSE <<>>
  IN up \o [i \in 1..Len(ds) |-> item(ds[i])] \o [i \in 1..Len(fl) |-> item(fl[i])]

\* refreshBrowse: a failed read returns before SetItems
refreshBrowse(f, dir, sh, old) == IF ReadDirOK(f, dir) THEN Listing(f, dir, sh) ELSE old

\* The list widget keeps its cursor on an item whenever it has items.
Clamp(c, n) == IF n = 0 THEN 0 ELSE IF c > n - 1 THEN n - 1 ELSE c

\* The block devices lsblk prints, in its order, and where udisksctl mounts.
Devices == <<"sda1", "sdb1">>
MountDir == << <<"d">> >>

MountItem(d, m) == [dev |-> d, mount |-> m]

\* What `lsblk -nrpo NAME,MOUNTPOINT` prints, as the fields of each line: a
\* line per device and the empty end of the output; nothing when it fails.
Lsblk(tab, ok) ==
  IF ok THEN [i \in 1..Len(Devices) |-> <<Devices[i]>> \o tab[Devices[i]]] \o << <<>> >>
  ELSE << <<>> >>

\* refreshMounts on the output out: a line without fields is skipped, the
\* first field is the device and the second, if any, the mount point
refreshMounts(out) ==
  LET lines == SelectSeq(out, LAMBDA f : Len(f) # 0)
  IN [i \in 1..Len(lines) |->
        MountItem(lines[i][1], IF Len(lines[i]) > 1 THEN <<lines[i][2]>> ELSE <<>>)]

Cmd(c, d) == [cmd |-> c, dev |-> d]

\* An event: what it acted on, and the marked map it found.
Ev(op, sel, clip, cm, buf, cmds) ==
  [op |-> op, sel |-> sel, clip |-> clip, clipMode |-> cm, buf |-> buf,
   cmds |-> cmds, marked |-> marked]

\* keys(m): the keys of the map, in an order the runtime picks
keys(m) ==
  {s \in [1..Cardinality(DOMAIN m) -> DOMAIN m] :
     \A i, j \in DOMAIN s : i # j => s[i] # s[j]}

\* m.marked[p] = !m.marked[p]
ToggleMark(m, p) ==
  [q \in DOMAIN m \cup {p} |->
     IF q = p THEN ~(p \in DOMAIN m /\ m[p]) ELSE m[q]]

\* The paste loop with the test of the clipboard mode left out: it copies
RECURSIVE PasteItemsCopying(_, _, _, _)
PasteItemsCopying(f, clip, cm, dir) ==
  IF clip = <<>> THEN f
  ELSE LET src == Head(clip)
           dst == Join(dir, Base(src))
       IN PasteItemsCopying(copyFile(f, src, dst), Tail(clip), cm, dir)

\* The paste loop of model.Update
RECURSIVE PasteItems(_, _, _, _)
PasteItems(f, clip, cm, dir) ==
  IF clip = <<>> THEN f
  ELSE LET src == Head(clip)
           dst == Join(dir, Base(src))
       IN PasteItems(IF cm = "Copy" THEN copyFile(f, src, dst)
                     ELSE OsRename(f, src, dst),
                     Tail(clip), cm, dir)

\* handleInput, case "create"
CreateEntry(f, dir, inp) ==
  LET full == Join(dir, inp)
      f1 == OsMkdirAll(f, Dir(full))
  IN IF HasSlashSuffix(inp) THEN OsMkdirAll(f1, full) ELSE OsCreateExcl(f1, full)

(***************************************************************************)
(* Initial state: initialModel                                             *)
(***************************************************************************)
\* /a (file), /.h (hidden file), /d (directory, readable or not), /d/a
InitFs(r) ==
  LET a == <<"a">>
      d == <<"d">>
      h == <<".", "h">>
  IN (<<>> :> DirNode(TRUE)) @@ (<<a>> :> FileNode(<<1>>))
     @@ (<<h>> :> FileNode(<<1, 2>>)) @@ (<<d>> :> DirNode(r))
     @@ (<<d, a>> :> FileNode(<<2>>))

\* What the user may have typed into the text field when enter arrives.
Buffers ==
  { <<>>, <<" ">>, <<"a">>, <<"a", "/">>, <<"n", "/">>, <<"n", "/", "n">> }

Init ==
  \E r \in BOOLEAN, start \in {<<>>, << <<"d">> >>} :
    /\ (start = <<>> \/ ~r)
    /\ fs = InitFs(r)
    /\ cwd = start
    /\ status = "running"
    /\ mode = "Browse"
    /\ showHidden = FALSE
    /\ browse = refreshBrowse(fs, cwd, FALSE, <<>>)
    /\ cursor = 0
    /\ mounts = <<>>
    /\ mcursor = 0
    /\ inputTarget = ""
    /\ marked = << >>
    /\ clipboard = <<>>
    /\ clipMode = "None"
    /\ mtab = ("sda1" :> << <<>> >>) @@ ("sdb1" :> <<>>)
    /\ app = [marked |-> marked, aliased |-> TRUE]
    /\ steps = 0
    /\ ev = Ev("init", <<>>, <<>>, "None", <<>>, <<>>)

(***************************************************************************)
(* model.Update, one action per key in each mode                           *)
(***************************************************************************)
Running(m) == status = "running" /\ mode = m /\ steps < MaxSteps

NoClip(op, sel) == Ev(op, sel, <<>>, "None", <<>>, <<>>)

\* list.SelectedItem() of model.browse; nil when the list has no items
HasSelected == cursor < Len(browse)
Selected == browse[cursor + 1]

\* app after a write to the map m.marked refers to, which is now m: app.marked
\* refers to the map initialModel made, and sees the write while m.marked
\* still refers to that map.
AppSees(m) == IF app.aliased THEN [app EXCEPT !.marked = m] ELSE app

\* fileItem.Description: the kind of the item, and " [Marked]" after it when
\* app.marked holds true for the path (a missing key reads as false)
Description(i) ==
  LET desc == IF i.isParent THEN "Parent Directory"
              ELSE IF i.isDir THEN "Directory" ELSE "File"
  IN IF ~i.isParent /\ i.path \in DOMAIN app.marked /\ app.marked[i.path]
       THEN <<desc, " [Marked]">> ELSE <<desc>>

\* m.browse.SelectedItem().(fileItem) on nil: the type assertion panics
Panic(op) ==
  /\ status' = "crashed"
  /\ ev' = NoClip(op, <<>>)
  /\ UNCHANGED <<mode, cwd, showHidden, browse, cursor, mounts, mcursor,
                 inputTarget, marked, clipboard, clipMode, fs, mtab, app>>

\* case Quit (Browse)
Quit ==
  /\ Running("Browse")
  /\ steps' = steps + 1
  /\ status' = "quit"
  /\ ev' = NoClip("quit", <<>>)
  /\ UNCHANGED <<mode, cwd, showHidden, browse, cursor, mounts, mcursor,
                 inputTarget, marked, clipboard, clipMode, fs, mtab, app>>

\* ToggleHidden without the call of refreshBrowse
ToggleHiddenStale ==
  /\ Running("Browse")
  /\ steps' = steps + 1
  /\ showHidden' = ~showHidden
  /\ ev' = NoClip("toggleHidden", <<>>)
  /\ UNCHANGED <<status, mode, cwd, browse, cursor, mounts, mcursor,
                 inputTarget, marked, clipboard, clipMode, fs, mtab, app>>

\* case ToggleHidden
ToggleHidden ==
  /\ Running("Browse")
  /\ steps' = steps + 1
  /\ showHidden' = ~showHidden
  /\ browse' = refreshBrowse(fs, cwd, showHidden', browse)
  /\ cursor' = Clamp(cursor, Len(browse'))
  /\ ev' = NoClip("toggleHidden", <<>>)
  /\ UNCHANGED <<status, mode, cwd, mounts, mcursor, inputTarget, marked,
                 clipboard, clipMode, fs, mtab, app>>

\* case Enter (Browse)
Enter ==
  /\ Running("Browse")
  /\ steps' = steps + 1
  /\ IF ~HasSelected THEN Panic("enter")
     ELSE /\ ev' = Ev("enter", <<Selected.path>>, <<>>, "None", <<>>,
                      IF Selected.isDir THEN <<>> ELSE <<Cmd("editor", "")>>)
          /\ IF Selected.isDir
               THEN /\ cwd' = Selected.path
                    /\ browse' = refreshBrowse(fs, cwd', showHidden, browse)
                    /\ cursor' = Clamp(cursor, Len(browse'))
               ELSE UNCHANGED <<cwd, browse, cursor>>
          /\ UNCHANGED <<status, mode, showHidden, mounts, mcursor, inputTarget,
                         marked, clipboard, clipMode, fs, mtab, app>>

\* case Mark
Mark ==
  /\ Running("Browse")
  /\ steps' = steps + 1
  /\ IF ~HasSelected THEN Panic("mark")
     ELSE /\ ev' = NoClip("mark", <<Selected.path>>)
          /\ IF ~Selected.isParent
               THEN /\ marked' = ToggleMark(marked, Selected.path)
                    /\ app' = AppSees(marked')
                    /\ browse' = refreshBrowse(fs, cwd, showHidden, browse)
                    /\ cursor' = Clamp(cursor, Len(browse'))
               ELSE UNCHANGED <<marked, app, browse, cursor>>
          /\ UNCHANGED <<status, mode, cwd, showHidden, mounts, mcursor,
                         inputTarget, clipboard, clipMode, fs, mtab>>

\* case Yank / case Cut: the same statements but for the mode
Snapshot(op, cm) ==
  /\ Running("Browse")
  /\ steps' = steps + 1
  /\ \E order \in keys(marked) : clipboard' = order
  /\ clipMode' = cm
  /\ marked' = <<>>
  /\ app' = [app EXCEPT !.aliased = FALSE]
  /\ browse' = refreshBrowse(fs, cwd, showHidden, browse)
  /\ cursor' = Clamp(cursor, Len(browse'))
  /\ ev' = Ev(op, <<>>, clipboard', cm, <<>>, <<>>)
  /\ UNCHANGED <<status, mode, cwd, showHidden, mounts, mcursor, inputTarget,
                 fs, mtab>>

Yank == Snapshot("yank", "Copy")

Cut == Snapshot("cut", "Cut")

\* Paste that clears the clipboard only when it changed the filesystem
PasteKeepingFailed ==
  /\ Running("Browse")
  /\ steps' = steps + 1
  /\ fs' = PasteItems(fs, clipboard, clipMode, cwd)
  /\ clipboard' = IF fs' = fs THEN clipboard ELSE <<>>
  /\ clipMode' = IF fs' = fs THEN clipMode ELSE "None"
  /\ browse' = refreshBrowse(fs', cwd, showHidden, browse)
  /\ cursor' = Clamp(cursor, Len(browse'))
  /\ ev' = Ev("paste", <<>>, clipboard, clipMode, <<>>, <<>>)
  /\ UNCHANGED <<status, mode, cwd, showHidden, mounts, mcursor, inputTarget,
                 marked, mtab, app>>

\* case Paste
Paste ==
  /\ Running("Browse")
  /\ steps' = steps + 1
  /\ fs' = PasteItems(fs, clipboard, clipMode, cwd)
  /\ clipboard' = <<>>
  /\ clipMode' = "None"
  /\ browse' = refreshBrowse(fs', cwd, showHidden, browse)
  /\ cursor' = Clamp(cursor, Len(browse'))
  /\ ev' = Ev("paste", <<>>, clipboard, clipMode, <<>>, <<>>)
  /\ UNCHANGED <<status, mode, cwd, showHidden, mounts, mcursor, inputTarget,
                 marked, mtab, app>>

\* case New
New ==
  /\ Running("Browse")
  /\ steps' = steps + 1
  /\ mode' = "Input"
  /\ inputTarget' = "create"
  /\ ev' = NoClip("new", <<>>)
  /\ UNCHANGED <<status, cwd, showHidden, browse, cursor, mounts, mcursor,
                 marked, clipboard, clipMode, fs, mtab, app>>

\* case Rename
Rename ==
  /\ Running("Browse")
  /\ steps' = steps + 1
  /\ IF ~HasSelected THEN Panic("rename")
     ELSE /\ ev' = NoClip("rename", <<Selected.path>>)
          /\ IF ~Selected.isParent
               THEN /\ mode' = "Input"
                    /\ inputTarget' = "rename"
               ELSE UNCHANGED <<mode, inputTarget>>
          /\ UNCHANGED <<status, cwd, showHidden, browse, cursor, mounts, mcursor,
                         marked, clipboard, clipMode, fs, mtab, app>>

\* Delete with refreshBrowse called before os.RemoveAll
DeleteStale ==
  /\ Running("Browse")
  /\ steps' = steps + 1
  /\ IF ~HasSelected THEN Panic("delete")
     ELSE /\ ev' = NoClip("delete", <<Selected.path>>)
          /\ IF ~Selected.isParent
               THEN /\ browse' = refreshBrowse(fs, cwd, showHidden, browse)
                    /\ cursor' = Clamp(cursor, Len(browse'))
                    /\ fs' = OsRemoveAll(fs, Selected.path)
                    /\ marked' = Drop(marked, {Selected.path})
                    /\ app' = AppSees(marked')
               ELSE UNCHANGED <<fs, marked, app, browse, cursor>>
          /\ UNCHANGED <<status, mode, cwd, showHidden, mounts, mcursor,
                         inputTarget, clipboard, clipMode, mtab>>

\* Delete that also takes the deleted path out of the clipboard
DeleteForgetting ==
  /\ Running("Browse")
  /\ steps' = steps + 1
  /\ IF ~HasSelected THEN Panic("delete")
     ELSE /\ ev' = NoClip("delete", <<Selected.path>>)
          /\ IF ~Selected.isParent
               THEN /\ fs' = OsRemoveAll(fs, Selected.path)
                    /\ marked' = Drop(marked, {Selected.path})
                    /\ app' = AppSees(marked')
                    /\ clipboard' = SelectSeq(clipboard, LAMBDA p : p # Selected.path)
                    /\ browse' = refreshBrowse(fs', cwd, showHidden, browse)
                    /\ cursor' = Clamp(cursor, Len(browse'))
               ELSE UNCHANGED <<fs, marked, app, clipboard, browse, cursor>>
          /\ UNCHANGED <<status, mode, cwd, showHidden, mounts, mcursor,
                         inputTarget, clipMode, mtab>>

\* case Delete
Delete ==
  /\ Running("Browse")
  /\ steps' = steps + 1
  /\ IF ~HasSelected THEN Panic("delete")
     ELSE /\ ev' = NoClip("delete", <<Selected.path>>)
          /\ IF ~Selected.isParent
               THEN /\ fs' = OsRemoveAll(fs, Selected.path)
                    /\ marked' = Drop(marked, {Selected.path})
                    /\ app' = AppSees(marked')
                    /\ browse' = refreshBrowse(fs', cwd, showHidden, browse)
                    /\ cursor' = Clamp(cursor, Len(browse'))
               ELSE UNCHANGED <<fs, marked, app, browse, cursor>>
          /\ UNCHANGED <<status, mode, cwd, showHidden, mounts, mcursor,
                         inputTarget, clipboard, clipMode, mtab>>

\* case View
View ==
  /\ Running("Browse")
  /\ steps' = steps + 1
  /\ IF ~HasSelected THEN Panic("view")
     ELSE /\ ev' = NoClip("view", <<Selected.path>>)
          /\ mode' = IF ~Selected.isParent /\ ~Selected.isDir THEN "View" ELSE mode
          /\ UNCHANGED <<status, cwd, showHidden, browse, cursor, mounts, mcursor,
                         inputTarget, marked, clipboard, clipMode, fs, mtab, app>>

\* case Mount: ok is whether lsblk ran
Mount ==
  /\ Running("Browse")
  /\ steps' = steps + 1
  /\ \E ok \in BOOLEAN : mounts' = refreshMounts(Lsblk(mtab, ok))
  /\ mcursor' = Clamp(mcursor, Len(mounts'))
  /\ mode' = "Mounts"
  /\ ev' = Ev("mount", <<>>, <<>>, "None", <<>>, <<Cmd("lsblk", "")>>)
  /\ UNCHANGED <<status, cwd, showHidden, browse, cursor, inputTarget, marked,
                 clipboard, clipMode, fs, mtab, app>>

\* Up and Down, any number of them, reach the list widget through
\* m.browse.Update(msg) and leave the cursor on another item.
MoveCursor ==
  /\ status = "running" /\ mode = "Browse"
  /\ \E c \in 0..(Len(browse) - 1) : c # cursor /\ cursor' = c
  /\ ev' = NoClip("move", <<>>)
  /\ UNCHANGED <<status, mode, cwd, showHidden, browse, mounts, mcursor,
                 inputTarget, marked, clipboard, clipMode, fs, mtab, app, steps>>

\* list.SelectedItem() of model.mounts
HasMount == mcursor < Len(mounts)
SelectedMount == mounts[mcursor + 1]

\* Back in Mounts mode with the second Back case of the switch ahead of the
\* first: a mounted device is unmounted and the mode stays Mounts
MountsBackUnmounting ==
  /\ Running("Mounts")
  /\ steps' = steps + 1
  /\ IF ~HasMount THEN Panic("mountsBack")
     ELSE IF SelectedMount.mount # <<>>
       THEN /\ \E done \in BOOLEAN :
                 mtab' = IF done THEN [mtab EXCEPT ![SelectedMount.dev] = <<>>]
                         ELSE mtab
            /\ \E ok \in BOOLEAN : mounts' = refreshMounts(Lsblk(mtab', ok))
            /\ mcursor' = Clamp(mcursor, Len(mounts'))
            /\ ev' = Ev("mountsBack", <<>>, <<>>, "None", <<>>,
                        <<Cmd("unmount", SelectedMount.dev), Cmd("lsblk", "")>>)
            /\ UNCHANGED <<status, mode, cwd, showHidden, browse, cursor,
                           inputTarget, marked, clipboard, clipMode, fs, app>>
       ELSE /\ ev' = NoClip("mountsBack", <<>>)
            /\ UNCHANGED <<status, mode, cwd, showHidden, browse, cursor, mounts,
                           mcursor, inputTarget, marked, clipboard, clipMode,
                           fs, mtab, app>>

\* case ModeMounts, Back: the first case of the switch that matches
MountsBack ==
  /\ Running("Mounts")
  /\ steps' = steps + 1
  /\ mode' = "Browse"
  /\ ev' = NoClip("mountsBack", <<>>)
  /\ UNCHANGED <<status, cwd, showHidden, browse, cursor, mounts, mcursor,
                 inputTarget, marked, clipboard, clipMode, fs, mtab, app>>

\* Enter in Mounts mode with m.mode=ModeBrowse left out of the mounted branch
MountsEnterStaying ==
  /\ Running("Mounts")
  /\ steps' = steps + 1
  /\ IF ~HasMount THEN Panic("mountsEnter")
     ELSE IF SelectedMount.mount = <<>>
       THEN /\ \E done \in BOOLEAN :
                 mtab' = IF done THEN [mtab EXCEPT ![SelectedMount.dev] = <<MountDir>>]
                         ELSE mtab
            /\ \E ok \in BOOLEAN : mounts' = refreshMounts(Lsblk(mtab', ok))
            /\ mcursor' = Clamp(mcursor, Len(mounts'))
            /\ ev' = Ev("mountsEnter", <<>>, <<>>, "None", <<>>,
                        <<Cmd("mount", SelectedMount.dev), Cmd("lsblk", "")>>)
            /\ UNCHANGED <<status, mode, cwd, showHidden, browse, cursor,
                           inputTarget, marked, clipboard, clipMode, fs, app>>
       ELSE /\ cwd' = SelectedMount.mount[1]
            /\ browse' = refreshBrowse(fs, cwd', showHidden, browse)
            /\ cursor' = Clamp(cursor, Len(browse'))
            /\ ev' = NoClip("mountsEnter", <<cwd'>>)
            /\ UNCHANGED <<status, mode, showHidden, mounts, mcursor, inputTarget,
                           marked, clipboard, clipMode, fs, mtab, app>>

\* case ModeMounts, Enter: done is whether udisksctl mounted the device
MountsEnter ==
  /\ Running("Mounts")
  /\ steps' = steps + 1
  /\ IF ~HasMount THEN Panic("mountsEnter")
     ELSE IF SelectedMount.mount = <<>>
       THEN /\ \E done \in BOOLEAN :
                 mtab' = IF done THEN [mtab EXCEPT ![SelectedMount.dev] = <<MountDir>>]
                         ELSE mtab
            /\ \E ok \in BOOLEAN : mounts' = refreshMounts(Lsblk(mtab', ok))
            /\ mcursor' = Clamp(mcursor, Len(mounts'))
            /\ ev' = Ev("mountsEnter", <<>>, <<>>, "None", <<>>,
                        <<Cmd("mount", SelectedMount.dev), Cmd("lsblk", "")>>)
            /\ UNCHANGED <<status, mode, cwd, showHidden, browse, cursor,
                           inputTarget, marked, clipboard, clipMode, fs, app>>
       ELSE /\ cwd' = SelectedMount.mount[1]
            /\ browse' = refreshBrowse(fs, cwd', showHidden, browse)
            /\ cursor' = Clamp(cursor, Len(browse'))
            /\ mode' = "Browse"
            /\ ev' = NoClip("mountsEnter", <<cwd'>>)
            /\ UNCHANGED <<status, showHidden, mounts, mcursor, inputTarget,
                           marked, clipboard, clipMode, fs, mtab, app>>

\* Up and Down reach the list widget through m.mounts.Update(msg)
MoveMountCursor ==
  /\ status = "running" /\ mode = "Mounts"
  /\ \E c \in 0..(Len(mounts) - 1) : c # mcursor /\ mcursor' = c
  /\ ev' = NoClip("move", <<>>)
  /\ UNCHANGED <<status, mode, cwd, showHidden, browse, cursor, mounts,
                 inputTarget, marked, clipboard, clipMode, fs, mtab, app, steps>>

\* case ModeInput, Back
InputBack ==
  /\ Running("Input")
  /\ steps' = steps + 1
  /\ mode' = "Browse"
  /\ ev' = NoClip("inputBack", <<>>)
  /\ UNCHANGED <<status, cwd, showHidden, browse, cursor, mounts, mcursor,
                 inputTarget, marked, clipboard, clipMode, fs, mtab, app>>

\* handleInput after the empty-input return: the filesystem it leaves
handleInput(f, target, dir, inp, item) ==
  IF target = "create" THEN CreateEntry(f, dir, inp)
  ELSE IF target = "rename" THEN OsRename(f, item.path, Join(dir, inp))
  ELSE f

\* The values m.input.Value() can have when enter arrives: New emptied the
\* field, Rename filled it with the item's name, and the user typed since.
InputValues ==
  Buffers \cup (IF inputTarget = "rename" /\ HasSelected THEN {Selected.name} ELSE {})

\* case ModeInput, enter: handleInput
InputEnter ==
  /\ Running("Input")
  /\ steps' = steps + 1
  /\ \E buf \in InputValues :
       /\ ev' = Ev("commit", IF HasSelected THEN <<Selected.path>> ELSE <<>>,
                   <<>>, "None", buf, <<>>)
       /\ IF TrimSpace(buf) = <<>>
            THEN UNCHANGED <<status, mode, fs, browse, cursor>>
            ELSE /\ fs' = handleInput(fs, inputTarget, cwd, TrimSpace(buf), Selected)
                 /\ mode' = "Browse"
                 /\ browse' = refreshBrowse(fs', cwd, showHidden, browse)
                 /\ cursor' = Clamp(cursor, Len(browse'))
                 /\ UNCHANGED status
  /\ UNCHANGED <<cwd, showHidden, mounts, mcursor, inputTarget, marked,
                 clipboard, clipMode, mtab, app>>

\* View mode where the Quit key ends the program as it does in Browse mode
ViewBackQuitting ==
  /\ Running("View")
  /\ steps' = steps + 1
  /\ \E k \in {"viewBack", "viewQuit"} :
       /\ ev' = NoClip(k, <<>>)
       /\ IF k = "viewQuit" THEN status' = "quit" /\ mode' = mode
          ELSE status' = status /\ mode' = "Browse"
  /\ UNCHANGED <<cwd, showHidden, browse, cursor, mounts, mcursor,
                 inputTarget, marked, clipboard, clipMode, fs, mtab, app>>

\* case ModeView, Back or Quit: either key sets the mode to Browse
ViewBack ==
  /\ Running("View")
  /\ steps' = steps + 1
  /\ mode' = "Browse"
  /\ \E k \in {"viewBack", "viewQuit"} : ev' = NoClip(k, <<>>)
  /\ UNCHANGED <<status, cwd, showHidden, browse, cursor, mounts, mcursor,
                 inputTarget, marked, clipboard, clipMode, fs, mtab, app>>

Next ==
  \/ Quit \/ ToggleHidden \/ Enter \/ Mark \/ Yank \/ Cut \/ Paste \/ New
  \/ Rename \/ Delete \/ View \/ Mount \/ MoveCursor
  \/ MountsBack \/ MountsEnter \/ MoveMountCursor
  \/ InputBack \/ InputEnter
  \/ ViewBack

Spec == Init /\ [][Next]_vars

(***************************************************************************)
(* Properties                                                              *)
(***************************************************************************)
\* The paths of the clipboard snapshot, and where paste puts one of them.
SnapPaths == {clipboard[i] : i \in 1..Len(clipboard)}
Dst(p) == Join(cwd, Base(p))

\* C1: yank then paste: for every regular file p of the snapshot, whatever
\* the current directory (p's own included), after paste the bytes at p are
\* unchanged and currentDirectory/basename(p) is a file with the same bytes.
C1_YankPasteKeepsSource ==
  [][(ev'.op = "paste" /\ clipMode = "Copy") =>
       \A p \in SnapPaths :
         IsFileAt(fs, p) =>
           /\ IsFileAt(fs', p) /\ fs'[p].bytes = fs[p].bytes
           /\ IsFileAt(fs', Dst(p)) /\ fs'[Dst(p)].bytes = fs[p].bytes]_vars

C3_SnapshotIsMarkedSet ==
  [][ev'.op \in {"yank", "cut"} =>
       /\ {clipboard'[i] : i \in 1..Len(clipboard')}
            = {p \in DOMAIN marked : marked[p]}
       /\ clipMode' = (IF ev'.op = "yank" THEN "Copy" ELSE "Cut")
       /\ DOMAIN marked' = {}]_vars

\* C4: after a paste the clipboard mode is None and the snapshot is empty,
\* whether the copies or moves succeeded or not, and the program runs on.
C4_PasteClearsClipboard ==
  ev.op = "paste" => clipboard = <<>> /\ clipMode = "None" /\ status = "running"

\* A cut of two paths was pasted: one moved, the other could not be moved
\* and is still where it was.
C4_PasteWitness ==
  /\ ev.op = "paste" /\ ev.clipMode = "Cut"
  /\ \E i, j \in 1..Len(ev.clip) :
       LET p == ev.clip[i]
           q == ev.clip[j]
       IN /\ Dst(p) # p /\ ~Exists(fs, p) /\ Exists(fs, Dst(p))
          /\ Dst(q) # q /\ Exists(fs, q)

\* C5: after enter in Input mode the mode is Browse and the catalog is the
\* refreshed one, whatever the buffer held (the empty buffer included).
C5_CommitReturnsToBrowse ==
  ev.op = "commit" =>
    /\ mode = "Browse"
    /\ ReadDirOK(fs, cwd) => browse = Listing(fs, cwd, showHidden)

\* C6: no event in Mounts mode ends the program abnormally, also when the
\* device enumeration failed or listed nothing.
C6_MountsNeverCrash == ~(status = "crashed" /\ mode = "Mounts")

\* C7: with an empty catalog, activate, mark, rename, delete and view in
\* Browse mode do nothing and do not end the program abnormally.
C7_EmptyCatalogNeverCrashes ==
  ~(status = "crashed" /\ mode = "Browse" /\ browse = <<>>)

\* Is some directory at or beneath p non-empty and not readable?
Unlistable(f, p) ==
  \E q \in Subtree(f, p) : f[q].isDir /\ ~f[q].readable /\ Children(f, q) # {}

\* C8 as stated: delete on a selected entry that is not the parent link
\* removes its path and all beneath it, takes the path out of the marked
\* set and leaves a catalog without the entry; delete on the parent link
\* changes neither the filesystem nor the marked set.
C8_DeleteRemoves ==
  [][(ev'.op = "delete" /\ HasSelected) =>
       IF Selected.isParent THEN fs' = fs /\ marked' = marked
       ELSE /\ Subtree(fs', Selected.path) = {}
            /\ Selected.path \notin DOMAIN marked'
            /\ \A i \in 1..Len(browse') : browse'[i].path # Selected.path]_vars

\* C8 amended: delete on a selected entry that is not the parent link
\* removes its path and all beneath it unless a non-empty directory that
\* cannot be read lies at or beneath it, takes the path out of the marked
\* set in every case, and leaves a catalog without the entry whenever the
\* path was removed and the current directory could be read; delete on the
\* parent link changes neither the filesystem nor the marked set.
C8_DeleteAmended ==
  [][(ev'.op = "delete" /\ HasSelected) =>
       IF Selected.isParent THEN fs' = fs /\ marked' = marked
       ELSE /\ ~Unlistable(fs, Selected.path) => Subtree(fs', Selected.path) = {}
            /\ Selected.path \notin DOMAIN marked'
            /\ (~Exists(fs', Selected.path) /\ ReadDirOK(fs', cwd)) =>
                 \A i \in 1..Len(browse') : browse'[i].path # Selected.path]_vars

\* The directory /d, which held /d/a, was deleted: both are gone.
C8_DeleteWitness ==
  /\ ev.op = "delete" /\ ev.sel = << << <<"d">> >> >>
  /\ ~Exists(fs, << <<"d">> >>) /\ ~Exists(fs, << <<"d">>, <<"a">> >>)
  /\ \A i \in 1..Len(browse) : browse[i].path # << <<"d">> >>

\* The proper prefixes of a path, the root included.
Ancestors(p) == {SubSeq(p, 1, k) : k \in 0..(Len(p) - 1)}

\* What C9 says of a committed Create of buffer buf, from f to g.
CreatePost(f, g, dir, buf) ==
  LET full == Join(dir, buf)
  IN IF HasSlashSuffix(buf)
       THEN \A q \in Ancestors(full) \cup {full} : IsDirAt(g, q)
       ELSE /\ \A q \in Ancestors(full) : IsDirAt(g, q)
            /\ ~Exists(f, full) => IsFileAt(g, full) /\ g[full].bytes = <<>>
            /\ Exists(f, full) => g[full] = f[full]

\* C9 as stated: committing a Create with a non-empty buffer: with a
\* trailing separator the path is afterwards a directory, as are all its
\* ancestors; without one the ancestors are directories, an empty file is
\* created where nothing was, and what was there is unchanged.
C9_CreateMakesEntry ==
  [][(ev'.op = "commit" /\ inputTarget = "create" /\ TrimSpace(ev'.buf) # <<>>) =>
       CreatePost(fs, fs', cwd, TrimSpace(ev'.buf))]_vars

\* Does a regular file stand where Create needs a directory?
FileInTheWay(f, dir, buf) ==
  LET full == Join(dir, buf)
  IN \E q \in Ancestors(full) \cup (IF HasSlashSuffix(buf) THEN {full} ELSE {}) :
       IsFileAt(f, q)

\* C9 amended: the same, provided no regular file stands at a component of
\* the path that has to be a directory (an ancestor, or with a trailing
\* separator the path itself); when one does, nothing is created or changed.
C9_CreateAmended ==
  [][(ev'.op = "commit" /\ inputTarget = "create" /\ TrimSpace(ev'.buf) # <<>>) =>
       IF FileInTheWay(fs, cwd, TrimSpace(ev'.buf)) THEN fs' = fs
       ELSE CreatePost(fs, fs', cwd, TrimSpace(ev'.buf))]_vars

\* "n/n" was committed as a Create: the missing directory n and the empty
\* file n/n now exist under the current directory.
C9_CreateWitness ==
  /\ ev.op = "commit" /\ inputTarget = "create" /\ ev.buf = <<"n", "/", "n">>
  /\ IsDirAt(fs, Append(cwd, <<"n">>))
  /\ IsFileAt(fs, cwd \o << <<"n">>, <<"n">> >>)
  /\ fs[cwd \o << <<"n">>, <<"n">> >>].bytes = <<>>

\* The mount requests among the commands an event ran.
MountCmds(cmds) == SelectSeq(cmds, LAMBDA c : c.cmd \in {"mount", "unmount"})

\* C10: in Mounts mode, activate on a device without mount point runs one
\* mount request, for that device, then lists the devices again, and leaves
\* the mode and the current directory as they were; activate on a device
\* with a mount point runs no mount request, makes the mount point the
\* current directory and sets the mode to Browse.
C10_MountsActivate ==
  [][(ev'.op = "mountsEnter" /\ HasMount) =>
       IF SelectedMount.mount = <<>>
         THEN /\ ev'.cmds = <<Cmd("mount", SelectedMount.dev), Cmd("lsblk", "")>>
              /\ mounts' \in {refreshMounts(Lsblk(mtab', ok)) : ok \in BOOLEAN}
              /\ mode' = "Mounts" /\ mode = "Mounts"
              /\ cwd' = cwd
         ELSE /\ MountCmds(ev'.cmds) = <<>>
              /\ cwd' = SelectedMount.mount[1]
              /\ mode' = "Browse"]_vars

\* The second device was mounted on request, listed with its mount point
\* and then activated: the current directory is its mount point.
C10_MountsWitness ==
  /\ ev.op = "mountsEnter" /\ mode = "Browse"
  /\ mtab["sdb1"] = <<MountDir>> /\ cwd = MountDir

\* The events that enter a mode from Browse.
Entering(m) ==
  CASE m = "Mounts" -> {"mount"}
    [] m = "Input" -> {"new", "rename"}
    [] m = "View" -> {"view"}
    [] OTHER -> {}

MarkedPaths(m) == {p \in DOMAIN m : m[p]}

\* C12: two mark events in a row on the same entry, not the parent link,
\* leave the marked set as the first one found it: the same paths are
\* marked, and a yank or cut that follows takes the snapshot it would have
\* taken without the two events.
C12_MarkTwiceRestores ==
  [][(/\ ev.op = "mark" /\ ev'.op = "mark" /\ ev'.sel = ev.sel
      /\ HasSelected /\ ~Selected.isParent) =>
       /\ MarkedPaths(marked') = MarkedPaths(ev.marked)
       /\ keys(marked') = keys(ev.marked)]_vars

\* C13: the path of the parent link of the catalog is never a marked path,
\* also after a directory was marked and a subdirectory of it was entered.
C13_ParentLinkNeverMarked ==
  \A i \in 1..Len(browse) :
    browse[i].isParent => browse[i].path \notin MarkedPaths(marked)

\* The entries of a catalog that are the parent link or have a name that
\* does not begin with a dot, in the catalog's order.
NonDot(b) == SelectSeq(b, LAMBDA it : it.isParent \/ it.name[1] # ".")

\* The dot-prefixed names a catalog shows, and those a directory holds.
HiddenShown(b) ==
  {b[i].name : i \in {j \in 1..Len(b) : ~b[j].isParent /\ b[j].name[1] = "."}}
HiddenNames(f, dir) == {Base(q) : q \in {c \in Children(f, dir) : Base(c)[1] = "."}}

\* C14: toggle-hidden flips showHidden; the entries of the catalog that are
\* not dot-prefixed (the parent link among them) are the same and in the
\* same order before and after; when the directory can be read, the
\* dot-prefixed children are all shown after it if showHidden is then true
\* and none is otherwise; currentDirectory, the marked set, the clipboard
\* and the filesystem are unchanged.
C14_ToggleHiddenFrame ==
  [][ev'.op = "toggleHidden" =>
       /\ showHidden' = ~showHidden
       /\ NonDot(browse') = NonDot(browse)
       /\ ReadDirOK(fs, cwd) =>
            HiddenShown(browse') = IF showHidden' THEN HiddenNames(fs, cwd) ELSE {}
       /\ cwd' = cwd /\ marked' = marked /\ fs' = fs
       /\ clipboard' = clipboard /\ clipMode' = clipMode]_vars

\* Hidden entries were toggled on in /: .h is listed with d and a.
C14_ToggleHiddenWitness ==
  /\ ev.op = "toggleHidden" /\ showHidden
  /\ HiddenShown(browse) = {<<".", "h">>}
  /\ Len(NonDot(browse)) >= 2

\* Is b the catalog of dir under sh on f: the parent link first exactly when
\* dir has a parent, then one entry for each listed child, a child being
\* listed when sh holds or its name does not begin with a dot; directories
\* before the others, and each of the two groups in the order of the names.
IsCatalogOf(b, f, dir, sh) ==
  LET first == IF Dir(dir) # dir THEN 1 ELSE 0
      listed == {q \in Children(f, dir) : sh \/ Base(q)[1] # "."}
      rest == (first + 1)..Len(b)
  IN /\ Len(b) = first + Cardinality(listed)
     /\ first = 1 => b[1] = FileItem(<<".", ".">>, Dir(dir), TRUE, TRUE)
     /\ {b[i].path : i \in rest} = listed
     /\ \A i \in rest :
          /\ ~b[i].isParent
          /\ b[i].name = Base(b[i].path)
          /\ b[i].isDir = f[b[i].path].isDir
     /\ \A i, j \in rest :
          i < j => /\ b[i].isDir \/ ~b[j].isDir
                   /\ b[i].isDir = b[j].isDir => LessName(b[i].name, b[j].name)

\* The example of the specification: a directory /n holding the files a and
\* h, the directory d and the hidden file .h.
ExampleDir == << <<"n">> >>
ExampleFs ==
  (<<>> :> DirNode(TRUE)) @@ (ExampleDir :> DirNode(TRUE))
  @@ (Append(ExampleDir, <<"a">>) :> FileNode(<<>>))
  @@ (Append(ExampleDir, <<"h">>) :> FileNode(<<>>))
  @@ (Append(ExampleDir, <<"d">>) :> DirNode(TRUE))
  @@ (Append(ExampleDir, <<".", "h">>) :> FileNode(<<>>))

\* C15: the catalog a successful read of currentDirectory produces is the
\* parent link first if and only if the directory has a parent, then the
\* listed directories in enumeration order, then the listed non-directories
\* in enumeration order, a child being listed iff showHidden is true or its
\* name does not begin with a dot; on the example it is [.., d, a, h].
C15_CatalogShape ==
  /\ ReadDirOK(fs, cwd) => IsCatalogOf(browse, fs, cwd, showHidden)
  /\ refreshBrowse(ExampleFs, ExampleDir, FALSE, <<>>)
       = << FileItem(<<".", ".">>, <<>>, TRUE, TRUE),
            FileItem(<<"d">>, Append(ExampleDir, <<"d">>), TRUE, FALSE),
            FileItem(<<"a">>, Append(ExampleDir, <<"a">>), FALSE, FALSE),
            FileItem(<<"h">>, Append(ExampleDir, <<"h">>), FALSE, FALSE) >>

\* In /d, next to the file a, the directory n was created: the catalog is
\* the parent link, then n, then a.
C15_CatalogWitness ==
  /\ cwd = << <<"d">> >> /\ ReadDirOK(fs, cwd) /\ ~showHidden
  /\ Len(browse) = 3
  /\ browse[1].isParent /\ browse[2].name = <<"n">> /\ browse[2].isDir
  /\ browse[3].name = <<"a">> /\ ~browse[3].isDir

\* The events that can change the filesystem.
Mutating == {"paste", "delete", "commit"}

\* C16 as stated: after every event that changed the filesystem (paste,
\* delete, committed create or rename) the catalog is the listing of
\* currentDirectory under showHidden on the resulting filesystem.
C16_CatalogFollowsFs ==
  [][(ev'.op \in Mutating /\ fs' # fs) =>
       IsCatalogOf(browse', fs', cwd', showHidden')]_vars

\* C16 amended: after every event that changed the filesystem the catalog
\* is the listing of currentDirectory under showHidden on the resulting
\* filesystem whenever currentDirectory can then be read; when it cannot,
\* the catalog is left as it was before the event.
C16_CatalogAmended ==
  [][(ev'.op \in Mutating /\ fs' # fs) =>
       IF ReadDirOK(fs', cwd') THEN IsCatalogOf(browse', fs', cwd', showHidden')
       ELSE browse' = browse]_vars

\* A rename was committed in a directory that can be read: the old path is
\* gone from the filesystem and from the catalog, which lists the new name.
C16_CatalogWitness ==
  /\ ev.op = "commit" /\ inputTarget = "rename" /\ ev.sel # <<>>
  /\ ReadDirOK(fs, cwd) /\ ~Exists(fs, ev.sel[1])
  /\ \A i \in 1..Len(browse) : browse[i].path # ev.sel[1]
  /\ \E i \in 1..Len(browse) : browse[i].path = Join(cwd, TrimSpace(ev.buf))

\* C17: the clipboard snapshot and the clipboard mode change only in a
\* yank, cut or paste event in Browse mode; every other event leaves both
\* as they were, also one that deletes or renames a path of the snapshot.
C17_ClipboardFrame ==
  [][(clipboard' # clipboard \/ clipMode' # clipMode) =>
       mode = "Browse" /\ ev'.op \in {"yank", "cut", "paste"}]_vars

\* A path of the snapshot was deleted: it is gone from the filesystem and
\* still in the snapshot.
C17_ClipboardWitness ==
  /\ ev.op = "delete" /\ ev.sel # <<>> /\ clipMode # "None"
  /\ ~Exists(fs, ev.sel[1])
  /\ \E i \in 1..Len(clipboard) : clipboard[i] = ev.sel[1]

\* C18: the description of an entry of the catalog that is not the parent
\* link carries "[Marked]" if and only if its path is marked in the marked
\* set of the running model, also after a yank or cut emptied the set and
\* after marks made since.
C18_IndicatorAgrees ==
  \A i \in 1..Len(browse) :
    ~browse[i].isParent =>
      (Description(browse[i]) = <<Description(browse[i])[1], " [Marked]">>
         <=> browse[i].path \in MarkedPaths(marked))

\* C19: no event runs the unmount command; back in Mounts mode sets the
\* mode to Browse and leaves the devices and their list as they were,
\* whatever device is selected.
C19_NoUnmount ==
  [][/\ \A i \in 1..Len(ev'.cmds) : ev'.cmds[i].cmd # "unmount"
     /\ (mode = "Mounts" /\ ev'.op = "mountsBack") =>
          mode' = "Browse" /\ mtab' = mtab /\ mounts' = mounts]_vars

\* Back arrived in Mounts mode with a mounted device selected: the mode is
\* Browse and the device is still mounted.
C19_NoUnmountWitness ==
  /\ ev.op = "mountsBack" /\ mode = "Browse"
  /\ HasMount /\ SelectedMount.mount # <<>>
  /\ mtab[SelectedMount.dev] = SelectedMount.mount

\* C20: in every state, also after a read of the directory failed in a
\* refresh, every entry of the catalog that is not the parent link has the
\* path currentDirectory/name and the parent link has the path
\* dirname(currentDirectory).
C20_CatalogPathsInCwd ==
  \A i \in 1..Len(browse) :
    browse[i].path = IF browse[i].isParent THEN Dir(cwd)
                     ELSE Join(cwd, browse[i].name)

====
